---- MODULE Spec2Model ----
(***************************************************************************)
(* A model of the `helpful` crate: the erasure-typed Error value           *)
(* (src/src/lib.rs), its conversions (From / Traced / ResultExt), its      *)
(* Display / Debug renderings, the helpful! macro, and the MainResult      *)
(* termination adapter, driven by a program shaped like                    *)
(* src/examples/sleep_helpful.rs.                                          *)
(*                                                                         *)
(* Text is modelled as a sequence of tokens (each f.pad / write of the     *)
(* code appends tokens), so that renderings can be compared, searched and  *)
(* taken apart.  The model is of the default build (feature "std").        *)
(***************************************************************************)
EXTENDS Naturals, Sequences, FiniteSets, TLC

\* Bounds of the model.
MaxDepth == 3          \* call frames above main
MaxCaptures == 3       \* cap of the capture counter

\* Program constants.
ExitSuccess == 0       \* ExitCode::SUCCESS, what ().report() returns
ExitFailure == 1       \* ExitCode::FAILURE

VARIABLES
    pc,           \* position of main: "init", "run", "returned", "exited"
    stack,        \* call frames above main, outermost first
    rustBacktrace,\* the environment toggle read by Backtrace::capture()
    btSupported,  \* whether the platform can capture a backtrace
    result,       \* the StdResult in the hands of the running frame
    outcome,      \* the MainResult main returned
    stderr,       \* the writes made to the error stream, in order
    exitCode,     \* <<the ExitCode report() returned>>, or <<>> before
    out,          \* the text of the last format!() of the live Error
    origin,       \* history: the native error (or message) of this failure
    first,        \* history: the Error as built at the first wrap
    born,         \* history: the full-form rendering at the first wrap
    bornSpans,    \* history: the instrumented frames active at the first wrap
    captures,     \* history: capture() calls since origin was produced
    last          \* history: the last operation and the kind of its input

vars == <<pc, stack, rustBacktrace, btSupported, result, outcome, stderr,
          exitCode, out, origin, first, born, bornSpans, captures, last>>

----------------------------------------------------------------------------
\* Sequences of tokens.

Reverse(s) == [i \in 1..Len(s) |-> s[Len(s) + 1 - i]]

RECURSIVE Concat(_)
Concat(ss) == IF ss = <<>> THEN <<>> ELSE Head(ss) \o Concat(Tail(ss))

Min(a, b) == IF a < b THEN a ELSE b

\* {:>4} of a frame index.
IdxStr(i) == <<"   0", "   1", "   2", "   3", "   4", "   5", "   6", "   7">>[i + 1]

----------------------------------------------------------------------------
\* The functions of the program (src/examples/sleep_helpful.rs).

FnCliRun ==
    [name |-> "cli::run", instrumented |-> TRUE,
     fields |-> "self=Cli { config: \"x.json\" }",
     location |-> "examples/sleep_helpful.rs:28", ret |-> "helpful"]

FnConfigLoad ==
    [name |-> "config::load", instrumented |-> TRUE,
     fields |-> "path=\"x.json\"",
     location |-> "examples/sleep_helpful.rs:42", ret |-> "helpful"]

FnReadToString ==
    [name |-> "std::fs::read_to_string", instrumented |-> FALSE,
     fields |-> "", location |-> "", ret |-> "native"]

Functions == {FnCliRun, FnConfigLoad, FnReadToString}

\* The span a #[instrument] attribute opens for a call of f.
SpanOf(f) == [name |-> f.name, fields |-> f.fields, location |-> f.location]

\* The spans entered and not yet exited, outermost first.
CurrentSpans ==
    LET inst == SelectSeq(stack, LAMBDA f : f.instrumented)
    IN  [i \in 1..Len(inst) |-> SpanOf(inst[i])]

----------------------------------------------------------------------------
\* Native errors: what implements std::error::Error.

IoNotFound ==
    [kind |-> "native", type |-> "std::io::Error",
     display |-> <<"No such file or directory (os error 2)">>,
     debug |-> <<"Os { code: 2, kind: NotFound, message: \"No such file or directory\" }">>]

JsonError ==
    [kind |-> "native", type |-> "serde_json::Error",
     display |-> <<"expected value at line 1 column 1">>,
     debug |-> <<"Error(\"expected value\", line: 1, column: 1)">>]

NativeErrors == {IoNotFound, JsonError}

\* A message: the text and the Rust type that owns it.
StaticStr(text) == [type |-> "&'static str", text |-> text]
OwnedString(text) == [type |-> "String", text |-> text]

\* wrapper::MessageError(M): Display and Debug are those of M.
MessageError(m) ==
    [kind |-> "native", type |-> "MessageError",
     payload |-> m.type,
     display |-> m.text,
     debug |-> <<"\"">> \o m.text \o <<"\"">>]

----------------------------------------------------------------------------
\* The external collaborators, at the interface Error::new consumes.

\* SpanTrace::capture(): the active spans, most recent first.
SpanTraceCapture == Reverse(CurrentSpans)

BacktraceStatus ==
    IF ~rustBacktrace THEN "Disabled"
    ELSE IF ~btSupported THEN "Unsupported"
    ELSE "Captured"

\* Backtrace::capture(): the native call stack, innermost first, when enabled.
BacktraceCapture ==
    IF BacktraceStatus = "Captured"
    THEN [status |-> "Captured",
          frames |-> Reverse(<<"main">> \o [i \in 1..Len(stack) |-> stack[i].name])]
    ELSE [status |-> BacktraceStatus, frames |-> <<>>]

\* One frame of Display for SpanTrace.
FrameTokens(i, fr) ==
    (IF i > 1 THEN <<"\n">> ELSE <<>>)
    \o <<IdxStr(i - 1), ": ", fr.name>>
    \o (IF fr.fields # "" THEN <<"\n           with ", fr.fields>> ELSE <<>>)
    \o (IF fr.location # "" THEN <<"\n             at ", fr.location>> ELSE <<>>)

SpanTraceDisplay(st) == Concat([i \in 1..Len(st) |-> FrameTokens(i, st[i])])

BacktraceDisplay(bt) ==
    Concat([i \in 1..Len(bt.frames) |-> <<IdxStr(i - 1), ": ", bt.frames[i], "\n">>])

----------------------------------------------------------------------------
\* The Error value.

\* Mutant: the span trace is not captured.
ErrorNewNoSpans(source) ==
    [kind |-> "helpful",
     source |-> source,
     span_trace |-> <<>>,
     backtrace |-> BacktraceCapture]

ErrorNew(source) ==
    [kind |-> "helpful",
     source |-> source,
     span_trace |-> SpanTraceCapture,
     backtrace |-> BacktraceCapture]

ErrorMsg(message) == ErrorNew(MessageError(message))

\* Mutant: the call history is read from the spans active when formatting.
DebugFmtLive(e, alternate) ==
    IF alternate
    THEN e.source.debug
    ELSE e.source.display
         \o <<"\n\n">>
         \o <<"Call history (recent first):\n">>
         \o SpanTraceDisplay(SpanTraceCapture)
         \o (IF e.backtrace.status = "Captured"
             THEN <<"\n\n">> \o <<"Backtrace:\n">> \o BacktraceDisplay(e.backtrace)
             ELSE <<>>)

\* Mutant: the backtrace section is written whatever the status.
DebugFmtUngated(e, alternate) ==
    IF alternate
    THEN e.source.debug
    ELSE e.source.display
         \o <<"\n\n">>
         \o <<"Call history (recent first):\n">>
         \o SpanTraceDisplay(e.span_trace)
         \o <<"\n\n">> \o <<"Backtrace:\n">> \o BacktraceDisplay(e.backtrace)

\* impl Debug for Error: {:?} is the full form, {:#?} the source's Debug.
DebugFmt(e, alternate) ==
    IF alternate
    THEN e.source.debug
    ELSE e.source.display
         \o <<"\n\n">>
         \o <<"Call history (recent first):\n">>
         \o SpanTraceDisplay(e.span_trace)
         \o (IF e.backtrace.status = "Captured"
             THEN <<"\n\n">> \o <<"Backtrace:\n">> \o BacktraceDisplay(e.backtrace)
             ELSE <<>>)

\* Mutant: the branches on f.alternate() are exchanged.
DisplayFmtSwapped(e, alternate) ==
    IF alternate
    THEN <<"Error: ">> \o DebugFmt(e, FALSE)
    ELSE e.source.display

\* impl Display for Error: {:#} is the short form, {} is "Error: " and the full form.
DisplayFmt(e, alternate) ==
    IF alternate
    THEN e.source.display
    ELSE <<"Error: ">> \o DebugFmt(e, FALSE)

----------------------------------------------------------------------------
\* Results, and the conversions into Error.

NoResult == [tag |-> "None"]
Ok(v) == [tag |-> "Ok", value |-> v]
Err(x) == [tag |-> "Err", error |-> x]
Caught(e) == [tag |-> "Caught", error |-> e]

NoError == [kind |-> "none"]
NoOut == [fmt |-> "none", text |-> <<>>]
NoInv == [fmt |-> <<>>, args |-> <<>>]
LastOp(op, input) == [op |-> op, input |-> input, inv |-> NoInv]

\* Mutant: an Error is wrapped again, with fresh snapshots.
IntoErrorRewrap(x) ==
    [error |-> ErrorNew(IF x.kind = "helpful" THEN x.source ELSE x), captured |-> 1]

\* <Error as From<E>>::from.  For E: StdError it is Error::new; Error itself
\* does not implement StdError, so for an Error the conversion the compiler
\* picks is core's reflexive From<T> for T.  `captured` counts the capture()
\* calls the conversion made.
IntoError(x) ==
    IF x.kind = "helpful"
    THEN [error |-> x, captured |-> 0]
    ELSE [error |-> ErrorNew(x), captured |-> 1]

\* Mutant: the conversion is made before the branch is looked at.
MapErrIntoEager(r) ==
    IF r.tag = "Err"
    THEN LET c == IntoError(r.error)
         IN  [result |-> Err(c.error), captured |-> c.captured]
    ELSE [result |-> r, captured |-> 1]

\* Result::map_err(Into::into)
MapErrInto(r) ==
    IF r.tag = "Err"
    THEN LET c == IntoError(r.error)
         IN  [result |-> Err(c.error), captured |-> c.captured]
    ELSE [result |-> r, captured |-> 0]

\* Traced::traced
TracedOf(r) == MapErrInto(r)

\* ResultExt::helpful
HelpfulOf(r) == MapErrInto(r)

\* Mutant: propagation builds a new Error around the source.
QuestionErrRewrap(x, ret) ==
    IF ret = "helpful"
    THEN [error |-> ErrorNew(IF x.kind = "helpful" THEN x.source ELSE x), captured |-> 1]
    ELSE [error |-> x, captured |-> 0]

\* The propagation operator in a function whose failure type is `ret`:
\* Err(x)? returns Err(From::from(x)).
QuestionErr(x, ret) ==
    IF ret = "helpful"
    THEN IntoError(x)
    ELSE [error |-> x, captured |-> 0]

----------------------------------------------------------------------------
\* The helpful! macro and __private::format_err.

\* What the format strings of the model may hold besides plain text.
Escapes == {"{{", "}}"}
InlineCaptures == {"{path}"}
Positional == {"{}"}

Unescape(tok) == IF tok = "{{" THEN "{" ELSE "}"

\* The value of a variable a format string captures by name.
ScopeValue(tok) == "x.json"

\* The index of the positional argument the i-th token of fmt consumes.
ArgIndex(fmt, i) == Cardinality({j \in 1..i : fmt[j] \in Positional})

\* format_args!(fmt, args...): the pieces of the parsed format string.  A
\* piece is literal text (escapes already resolved) or a substitution.
FormatArgs(fmt, args) ==
    [i \in 1..Len(fmt) |->
        IF fmt[i] \in Escapes THEN [lit |-> TRUE, text |-> Unescape(fmt[i])]
        ELSE IF fmt[i] \in InlineCaptures THEN [lit |-> FALSE, text |-> ScopeValue(fmt[i])]
        ELSE IF fmt[i] \in Positional THEN [lit |-> FALSE, text |-> args[ArgIndex(fmt, i)]]
        ELSE [lit |-> TRUE, text |-> fmt[i]]]

PiecesText(a) == [i \in 1..Len(a) |-> a[i].text]

\* Arguments::as_str(): Some(text) when nothing is to be substituted.
ArgumentsAsStr(a) ==
    IF \A i \in 1..Len(a) : a[i].lit
    THEN [some |-> TRUE, text |-> PiecesText(a)]
    ELSE [some |-> FALSE, text |-> <<>>]

\* alloc::fmt::format / format!: the formatting engine, into an owned String.
FmtFormat(a) == OwnedString(PiecesText(a))

\* Mutant: the message is always formatted.
format_err_always(args) == ErrorMsg(FmtFormat(args))

format_err(args) ==
    LET fmt_arguments_as_str == ArgumentsAsStr(args)
    IN  IF fmt_arguments_as_str.some
        THEN ErrorMsg(StaticStr(fmt_arguments_as_str.text))
        ELSE ErrorMsg(FmtFormat(args))

must_use(error) == error

\* helpful!(...): the first arm takes a lone literal, the second a format
\* string followed by arguments.
HelpfulMacro(inv) ==
    IF inv.args = <<>>
    THEN must_use(format_err(FormatArgs(inv.fmt, <<>>)))
    ELSE ErrorMsg(FmtFormat(FormatArgs(inv.fmt, inv.args)))

\* The invocations of helpful! the program makes.
Invocations ==
    { [fmt |-> <<"config missing">>, args |-> <<>>],
      [fmt |-> <<"unexpected ", "{{", "}}">>, args |-> <<>>],
      [fmt |-> <<"cannot open ", "{path}">>, args |-> <<>>],
      [fmt |-> <<"timeout after ", "{}">>, args |-> <<"5s">>] }

----------------------------------------------------------------------------
\* Process termination.

Unit == [ty |-> "unit"]
ExitCodeOf(n) == [ty |-> "ExitCode", code |-> n]
ResultValue(r) == [ty |-> "Result", res |-> r]

\* The success values main may end with: every T: Termination of std.
Values == {Unit, ExitCodeOf(2), ResultValue(Err(IoNotFound))}

\* <T as Termination>::report of std: the exit code and what it writes to
\* the error stream.
TerminationReport(v) ==
    IF v.ty = "unit" THEN [code |-> ExitSuccess, writes |-> <<>>]
    ELSE IF v.ty = "ExitCode" THEN [code |-> v.code, writes |-> <<>>]
    ELSE [code |-> ExitFailure,
          writes |-> << <<"Error: ">> \o v.res.error.debug \o <<"\n">> >>]

\* impl From<StdResult<T, E>> for MainResult<T, E>
MainResultFrom(value) ==
    IF value.tag = "Ok"
    THEN [tag |-> "MainResult::Ok", value |-> value.value]
    ELSE [tag |-> "MainResult::Err", error |-> value.error]

\* Mutant: the error is written with {:#}.
DisplayOfShort(x) == IF x.kind = "helpful" THEN DisplayFmt(x, TRUE) ELSE x.display

\* {} of an E: Display
DisplayOf(x) == IF x.kind = "helpful" THEN DisplayFmt(x, FALSE) ELSE x.display

\* eprintln!("{}", error): one write, the text and a line break.
Eprintln(text) == text \o <<"\n">>

\* Mutant: the success branch reports success without asking the value.
MainResultReportSwallow(o) ==
    IF o.tag = "MainResult::Ok"
    THEN [code |-> ExitSuccess, writes |-> <<>>]
    ELSE [code |-> ExitFailure, writes |-> << Eprintln(DisplayOf(o.error)) >>]

\* impl Termination for MainResult
MainResultReport(o) ==
    IF o.tag = "MainResult::Ok"
    THEN TerminationReport(o.value)
    ELSE [code |-> ExitFailure, writes |-> << Eprintln(DisplayOf(o.error)) >>]

----------------------------------------------------------------------------
\* The program.

Top == stack[Len(stack)]
Pop == SubSeq(stack, 1, Len(stack) - 1)
InputKind(r) == IF r.tag = "Ok" THEN "Ok" ELSE r.error.kind
Live == result.tag \in {"Err", "Caught"} /\ result.error.kind = "helpful"

Formats == {"{}", "{:#}", "{:?}", "{:#?}"}

FormatOf(e, m) ==
    IF m = "{}" THEN DisplayFmt(e, FALSE)
    ELSE IF m = "{:#}" THEN DisplayFmt(e, TRUE)
    ELSE IF m = "{:?}" THEN DebugFmt(e, FALSE)
    ELSE DebugFmt(e, TRUE)

Init ==
    /\ pc = "init"
    /\ stack = <<>>
    /\ rustBacktrace \in BOOLEAN
    /\ btSupported \in BOOLEAN
    /\ result = NoResult
    /\ outcome = NoResult
    /\ stderr = <<>>
    /\ exitCode = <<>>
    /\ out = NoOut
    /\ origin = NoError
    /\ first = NoError
    /\ born = <<>>
    /\ bornSpans = <<>>
    /\ captures = 0
    /\ last = LastOp("none", "none")

\* main: init_tracing_subscriber()
InitTracingSubscriber ==
    /\ pc = "init"
    /\ pc' = "run"
    /\ last' = LastOp("init_tracing_subscriber", "none")
    /\ UNCHANGED <<stack, rustBacktrace, btSupported, result, outcome, stderr,
                   exitCode, out, origin, first, born, bornSpans, captures>>

\* A call of f: its frame is pushed and, if instrumented, its span entered.
\* A frame that has set an Error aside may go on calling.
Call(f) ==
    /\ pc = "run"
    /\ result.tag \in {"None", "Caught"}
    /\ Len(stack) < MaxDepth
    /\ stack' = Append(stack, f)
    /\ out' = NoOut
    /\ last' = LastOp("call", "none")
    /\ UNCHANGED <<pc, rustBacktrace, btSupported, result, outcome, stderr,
                   exitCode, origin, first, born, bornSpans, captures>>

\* A frame ends while the Error set aside lives on: its span is exited.
Exit ==
    /\ pc = "run"
    /\ result.tag = "Caught"
    /\ stack # <<>>
    /\ stack' = Pop
    /\ out' = NoOut
    /\ last' = LastOp("exit", "none")
    /\ UNCHANGED <<pc, rustBacktrace, btSupported, result, outcome, stderr,
                   exitCode, origin, first, born, bornSpans, captures>>

\* A leaf operation of the running frame fails with a native error.
Fail(e) ==
    /\ pc = "run"
    /\ result.tag = "None"
    /\ result' = Err(e)
    /\ origin' = e
    /\ first' = NoError
    /\ born' = <<>>
    /\ bornSpans' = <<>>
    /\ captures' = 0
    /\ out' = NoOut
    /\ last' = LastOp("fail", "none")
    /\ UNCHANGED <<pc, stack, rustBacktrace, btSupported, outcome, stderr, exitCode>>

\* The running frame produces a success value.
Succeed(v) ==
    /\ pc = "run"
    /\ result.tag = "None"
    /\ result' = Ok(v)
    /\ out' = NoOut
    /\ last' = LastOp("succeed", "none")
    /\ UNCHANGED <<pc, stack, rustBacktrace, btSupported, outcome, stderr,
                   exitCode, origin, first, born, bornSpans, captures>>

\* Err(helpful!(...)) in the running frame.
Bail(inv) ==
    /\ pc = "run"
    /\ result.tag = "None"
    /\ LET e == HelpfulMacro(inv)
       IN  /\ result' = Err(e)
           /\ origin' = e.source
           /\ first' = e
           /\ born' = DebugFmt(e, FALSE)
    /\ bornSpans' = CurrentSpans
    /\ captures' = 1
    /\ out' = NoOut
    /\ last' = [op |-> "helpful!", input |-> "none", inv |-> inv]
    /\ UNCHANGED <<pc, stack, rustBacktrace, btSupported, outcome, stderr, exitCode>>

\* The history kept when a conversion turns `result` into r2 with c captures.
Record(r2, c) ==
    LET wrap == result.tag = "Err" /\ result.error.kind = "native"
                /\ r2.tag = "Err" /\ r2.error.kind = "helpful"
    IN  /\ first' = IF wrap THEN r2.error ELSE first
        /\ born' = IF wrap THEN DebugFmt(r2.error, FALSE) ELSE born
        /\ bornSpans' = IF wrap THEN CurrentSpans ELSE bornSpans
        /\ captures' = Min(captures + c, MaxCaptures)

\* result.traced()
Traced ==
    /\ pc = "run"
    /\ result.tag \in {"Ok", "Err"}
    /\ LET t == TracedOf(result)
       IN  /\ result' = t.result
           /\ Record(t.result, t.captured)
    /\ out' = NoOut
    /\ last' = LastOp("traced", InputKind(result))
    /\ UNCHANGED <<pc, stack, rustBacktrace, btSupported, outcome, stderr,
                   exitCode, origin>>

\* result.helpful()
Helpful ==
    /\ pc = "run"
    /\ result.tag \in {"Ok", "Err"}
    /\ LET t == HelpfulOf(result)
       IN  /\ result' = t.result
           /\ Record(t.result, t.captured)
    /\ out' = NoOut
    /\ last' = LastOp("helpful", InputKind(result))
    /\ UNCHANGED <<pc, stack, rustBacktrace, btSupported, outcome, stderr,
                   exitCode, origin>>

\* result? in a called function: Ok is unwrapped and the function goes on;
\* Err is converted, inside the function's span, and returned to the caller.
Question ==
    /\ pc = "run"
    /\ stack # <<>>
    /\ result.tag \in {"Ok", "Err"}
    /\ IF result.tag = "Ok"
       THEN /\ result' = NoResult
            /\ UNCHANGED <<stack, first, born, bornSpans, captures>>
       ELSE /\ Top.ret = "native" => result.error.kind = "native"
            /\ LET c == QuestionErr(result.error, Top.ret)
               IN  /\ result' = Err(c.error)
                   /\ Record(Err(c.error), c.captured)
            /\ stack' = Pop
    /\ out' = NoOut
    /\ last' = LastOp("?", InputKind(result))
    /\ UNCHANGED <<pc, rustBacktrace, btSupported, outcome, stderr, exitCode, origin>>

\* The function returns `result` as its tail expression.
Return ==
    /\ pc = "run"
    /\ stack # <<>>
    /\ result.tag \in {"Ok", "Err"}
    /\ result.tag = "Err" => (Top.ret = "helpful" <=> result.error.kind = "helpful")
    /\ stack' = Pop
    /\ out' = NoOut
    /\ last' = LastOp("return", InputKind(result))
    /\ UNCHANGED <<pc, rustBacktrace, btSupported, result, outcome, stderr,
                   exitCode, origin, first, born, bornSpans, captures>>

\* The caller handles the failure and keeps the Error (to log it later).
Catch ==
    /\ pc = "run"
    /\ result.tag = "Err"
    /\ result.error.kind = "helpful"
    /\ result' = Caught(result.error)
    /\ out' = NoOut
    /\ last' = LastOp("catch", "helpful")
    /\ UNCHANGED <<pc, stack, rustBacktrace, btSupported, outcome, stderr,
                   exitCode, origin, first, born, bornSpans, captures>>

\* The caller recovers: the error is dropped.
Discard ==
    /\ pc = "run"
    /\ result.tag \in {"Err", "Caught"}
    /\ result' = NoResult
    /\ origin' = NoError
    /\ first' = NoError
    /\ born' = <<>>
    /\ bornSpans' = <<>>
    /\ captures' = 0
    /\ out' = NoOut
    /\ last' = LastOp("discard", "none")
    /\ UNCHANGED <<pc, stack, rustBacktrace, btSupported, outcome, stderr, exitCode>>

\* format!(m, error) of the live Error.
Format(m) ==
    /\ pc = "run"
    /\ Live
    /\ out' = [fmt |-> m, text |-> FormatOf(result.error, m)]
    /\ last' = LastOp("format", "helpful")
    /\ UNCHANGED <<pc, stack, rustBacktrace, btSupported, result, outcome, stderr,
                   exitCode, origin, first, born, bornSpans, captures>>

\* main returns result.into()
MainInto ==
    /\ pc = "run"
    /\ stack = <<>>
    /\ result.tag \in {"Ok", "Err"}
    /\ outcome' = MainResultFrom(result)
    /\ result' = NoResult
    /\ pc' = "returned"
    /\ out' = NoOut
    /\ last' = LastOp("into", InputKind(result))
    /\ UNCHANGED <<stack, rustBacktrace, btSupported, stderr, exitCode, origin,
                   first, born, bornSpans, captures>>

\* The runtime calls report() on what main returned, once.
Report ==
    /\ pc = "returned"
    /\ LET r == MainResultReport(outcome)
       IN  /\ stderr' = stderr \o r.writes
           /\ exitCode' = <<r.code>>
    /\ pc' = "exited"
    /\ last' = LastOp("report", "none")
    /\ UNCHANGED <<stack, rustBacktrace, btSupported, result, outcome, out,
                   origin, first, born, bornSpans, captures>>

Next ==
    \/ InitTracingSubscriber
    \/ \E f \in Functions : Call(f)
    \/ Exit
    \/ \E e \in NativeErrors : Fail(e)
    \/ \E v \in Values : Succeed(v)
    \/ \E inv \in Invocations : Bail(inv)
    \/ Traced
    \/ Helpful
    \/ Question
    \/ Return
    \/ Catch
    \/ Discard
    \/ \E m \in Formats : Format(m)
    \/ MainInto
    \/ Report

Spec == Init /\ [][Next]_vars
----------------------------------------------------------------------------
\* Helpers of the properties.

\* The Error main returned, when it returned one.
Returned == outcome.tag = "MainResult::Err" /\ outcome.error.kind = "helpful"

Count(t, tok) == Cardinality({i \in 1..Len(t) : t[i] = tok})

IndexTokens == {IdxStr(i) : i \in 0..7}

\* Where the call history of a full-form rendering ends: before the blank
\* line of the backtrace section, when there is one.
HistoryEnd(t) ==
    IF \E i \in 1..Len(t) : t[i] = "Backtrace:\n"
    THEN (CHOOSE i \in 1..Len(t) : t[i] = "Backtrace:\n") - 2
    ELSE Len(t)

\* The call-history section of a full-form rendering: what follows the header.
History(t) ==
    LET h == CHOOSE i \in 1..Len(t) : t[i] = "Call history (recent first):\n"
    IN  SubSeq(t, h + 1, HistoryEnd(t))

IndexPositions(h) == SelectSeq([i \in 1..Len(h) |-> i], LAMBDA i : h[i] \in IndexTokens)

\* h lists exactly the spans s (outermost first), most recent first, indexed
\* from 0, each with its name and its fields.
ListsFrames(h, s) ==
    LET p == IndexPositions(h)
        n == Len(s)
    IN  /\ Len(p) = n
        /\ n = 0 => h = <<>>
        /\ \A j \in 1..n :
              /\ h[p[j]] = IdxStr(j - 1)
              /\ h[p[j] + 1] = ": "
              /\ h[p[j] + 2] = s[n + 1 - j].name
              /\ s[n + 1 - j].fields # "" =>
                    /\ h[p[j] + 3] = "\n           with "
                    /\ h[p[j] + 4] = s[n + 1 - j].fields

----------------------------------------------------------------------------
\* C1 - Idempotent wrapping.  Converting a value that already is an Error
\* (by traced(), by helpful() or by the From conversion of the propagation
\* operator), whatever frames are active, yields the very same Error: same
\* source, same call history, same backtrace, hence the same full-form text
\* with one "Call history" header, and no capture() is made.
C1_IdempotentWrapping ==
    [][ (/\ last'.op \in {"traced", "helpful", "?"}
         /\ result.tag = "Err"
         /\ result.error.kind = "helpful")
        => (/\ result'.tag = "Err"
            /\ result'.error = result.error
            /\ DebugFmt(result'.error, FALSE) = DebugFmt(result.error, FALSE)
            /\ Count(DebugFmt(result'.error, FALSE), "Call history (recent first):\n") = 1
            /\ captures' = captures) ]_vars

\* An Error built inside two spans was converted again by traced() after
\* those spans' frames had changed.
C1_Witness ==
    /\ last.op = "traced"
    /\ last.input = "helpful"
    /\ result.tag = "Err"
    /\ Len(bornSpans) = 2
    /\ CurrentSpans # bornSpans

\* C2 - Capture happens exactly once per error.  Every Error in flight, set
\* aside or returned by main is the Error built at the first wrap (same
\* source, span trace and backtrace), its source is the native error that was
\* raised, its span trace is the one of the frames active at the first wrap,
\* and exactly one capture was made for it.
C2_CaptureOnce ==
    /\ Live =>
          /\ result.error = first
          /\ result.error.source = origin
          /\ result.error.span_trace = Reverse(bornSpans)
          /\ captures = 1
    /\ Returned =>
          /\ outcome.error = first
          /\ outcome.error.source = origin
          /\ outcome.error.span_trace = Reverse(bornSpans)
          /\ captures = 1

\* An io error wrapped inside two spans has just been propagated by ? out of
\* the outermost function.
C2_Witness ==
    /\ last.op = "?"
    /\ last.input = "helpful"
    /\ stack = <<>>
    /\ result.tag = "Err"
    /\ origin = IoNotFound
    /\ Len(result.error.span_trace) = 2
    /\ result.error.backtrace.status = "Captured"

\* C3 - The diagnostic snapshot is a point-in-time copy.  Whatever frames
\* have been entered or exited since the Error was built, its full form is
\* the text it had when it was built.
C3_SnapshotIsCopy ==
    (Live /\ out.fmt = "{:?}") => out.text = born

\* The Error was built inside spans, all of them have exited, another span
\* has been entered, and the Error is rendered.
C3_Witness ==
    /\ result.tag = "Caught"
    /\ out.fmt = "{:?}"
    /\ bornSpans # <<>>
    /\ CurrentSpans # <<>>
    /\ CurrentSpans[1] # bornSpans[1]

\* C4 - Snapshot freshness and order.  The full form of an Error lists, after
\* the header "Call history (recent first):", exactly the spans that were
\* active when it was built, innermost first, indexed from 0, each with its
\* name and its fields; with no active span the header is followed by no
\* frame entry.
C4_SnapshotFreshness ==
    (Live /\ out.fmt = "{:?}") =>
        /\ Count(out.text, "Call history (recent first):\n") = 1
        /\ ListsFrames(History(out.text), bornSpans)
        /\ bornSpans = <<>> => History(out.text) = <<>>

\* Wrapped inside cli::run then config::load: frame 0 is config::load with
\* path, frame 1 is cli::run with self.
C4_Witness ==
    /\ Live
    /\ out.fmt = "{:?}"
    /\ Len(bornSpans) = 2
    /\ bornSpans[1].name = "cli::run"
    /\ bornSpans[2].name = "config::load"
    /\ \E i \in 1..Len(out.text) : out.text[i] = "   0" /\ out.text[i + 2] = "config::load"

\* C5 - Backtrace gating.  The full form holds the header "Backtrace:",
\* preceded by a blank line and followed by the frames of the backtrace, if
\* and only if the backtrace's status is Captured; otherwise the text ends
\* with the call history and holds neither the header nor its blank line.
C5_BacktraceGating ==
    (Live /\ out.fmt = "{:?}") =>
        LET t == out.text
            bt == result.error.backtrace
            has == \E i \in 1..Len(t) : t[i] = "Backtrace:\n"
        IN  /\ has <=> bt.status = "Captured"
            /\ has =>
                  LET b == CHOOSE i \in 1..Len(t) : t[i] = "Backtrace:\n"
                  IN  /\ t[b - 1] = "\n\n"
                      /\ Count(t, "Backtrace:\n") = 1
                      /\ Len(t) > b
                      /\ SelectSeq(SubSeq(t, b + 1, Len(t)),
                                   LAMBDA x : x \in {"main"} \cup {f.name : f \in Functions})
                         = bt.frames
            /\ ~has => /\ Count(t, "\n\n") = 1
                       /\ bt.frames = <<>>

\* A captured backtrace rendered in the full form.
C5_Witness ==
    /\ Live
    /\ out.fmt = "{:?}"
    /\ result.error.backtrace.status = "Captured"
    /\ Len(result.error.backtrace.frames) > 1
    /\ \E i \in 1..Len(out.text) : out.text[i] = "Backtrace:\n"

\* C6 - Identity of message.  The short form ({:#}) of an Error is exactly
\* the short-form text of the native error it wraps: no "Error: " prefix, no
\* call history, no backtrace, whatever the snapshots hold.
C6_IdentityOfMessage ==
    (Live /\ out.fmt = "{:#}") =>
        /\ out.text = origin.display
        /\ \A i \in 1..Len(out.text) :
              out.text[i] \notin {"Error: ", "Call history (recent first):\n", "Backtrace:\n"}

\* The short form of a wrapped io error whose snapshots are both non-empty.
C6_Witness ==
    /\ Live
    /\ out.fmt = "{:#}"
    /\ origin = IoNotFound
    /\ result.error.span_trace # <<>>
    /\ result.error.backtrace.status = "Captured"

\* C7 as stated - Reporting MainResult::Ok(v) returns v's own exit code and
\* leaves the error stream empty; reporting MainResult::Err of an Error
\* returns ExitCode::FAILURE after exactly one write, which ends in a line
\* break.
C7_Original ==
    pc = "exited" =>
        /\ outcome.tag = "MainResult::Ok" =>
              /\ exitCode = <<TerminationReport(outcome.value).code>>
              /\ stderr = <<>>
        /\ Returned =>
              /\ exitCode = <<1>>
              /\ Len(stderr) = 1
              /\ stderr[1][Len(stderr[1])] = "\n"

\* C7 as amended - Reporting MainResult::Ok(v) returns v's own exit code and
\* writes to the error stream only what v's own report writes (nothing when
\* v is () or an ExitCode); reporting MainResult::Err of an Error returns
\* ExitCode::FAILURE, whatever the underlying error, after exactly one write,
\* which ends in a line break.
C7_TerminationMapping ==
    pc = "exited" =>
        /\ outcome.tag = "MainResult::Ok" =>
              /\ exitCode = <<TerminationReport(outcome.value).code>>
              /\ stderr = TerminationReport(outcome.value).writes
              /\ outcome.value.ty \in {"unit", "ExitCode"} => stderr = <<>>
              /\ outcome.value.ty = "unit" => exitCode = <<0>>
              /\ outcome.value.ty = "ExitCode" => exitCode = <<outcome.value.code>>
        /\ Returned =>
              /\ exitCode = <<1>>
              /\ Len(stderr) = 1
              /\ stderr[1][Len(stderr[1])] = "\n"

\* An Error was reported.
C7_Witness ==
    /\ pc = "exited"
    /\ Returned
    /\ exitCode = <<1>>
    /\ Len(stderr) = 1

\* C8 as stated - The text written for an unrecovered Error is its full
\* form: it begins with the underlying error's message, then comes the
\* header "Call history (recent first):".
C8_Original ==
    (pc = "exited" /\ Returned) =>
        LET t == stderr[1]
            m == origin.display
        IN  /\ SubSeq(t, 1, Len(m)) = m
            /\ t[Len(m) + 1] = "\n\n"
            /\ t[Len(m) + 2] = "Call history (recent first):\n"

\* C8 as amended - The text written for an unrecovered Error is "Error: ",
\* then its full form (the underlying error's message, a blank line, the
\* header "Call history (recent first):", the captured frames and, only if
\* captured, the backtrace section), then a line break.
C8_FailureReport ==
    (pc = "exited" /\ Returned) =>
        LET t == stderr[1]
            m == origin.display
        IN  /\ t = <<"Error: ">> \o born \o <<"\n">>
            /\ SubSeq(t, 2, Len(m) + 1) = m
            /\ t[Len(m) + 2] = "\n\n"
            /\ t[Len(m) + 3] = "Call history (recent first):\n"
            /\ ListsFrames(History(SubSeq(t, 1, Len(t) - 1)), bornSpans)
            /\ (\E i \in 1..Len(t) : t[i] = "Backtrace:\n")
                  <=> outcome.error.backtrace.status = "Captured"

\* The report of the io error raised inside cli::run and config::load.
C8_Witness ==
    /\ pc = "exited"
    /\ Returned
    /\ origin = IoNotFound
    /\ Len(bornSpans) = 2
    /\ stderr # <<>>
    /\ stderr[1][1] = "Error: "

\* Whether a format string holds a substitution.
HasSubstitution(fmt) == \E i \in 1..Len(fmt) : fmt[i] \in InlineCaptures \cup Positional

\* C9 as stated - helpful! of a literal without substitutions takes the
\* as_str branch (the message is the static string, not an owned String) and
\* the message text is the literal verbatim; only a template with
\* substitutions is rendered into an owned String.
C9_Original ==
    last.op = "helpful!" =>
        LET src == result.error.source
        IN  /\ src.payload = "String" <=> HasSubstitution(last.inv.fmt)
            /\ ~HasSubstitution(last.inv.fmt) =>
                  /\ src.payload = "&'static str"
                  /\ src.display = last.inv.fmt

\* C9 as amended - helpful! of a literal without substitutions takes the
\* as_str branch (the message is the static string, not an owned String) and
\* the message text is the literal with its brace escapes {{ and }} resolved
\* to { and } (so verbatim when it holds no brace escape); only a template
\* with substitutions is rendered into an owned String.
C9_LiteralFastPath ==
    last.op = "helpful!" =>
        LET src == result.error.source
            fmt == last.inv.fmt
        IN  /\ src.payload = "String" <=> HasSubstitution(fmt)
            /\ ~HasSubstitution(fmt) =>
                  /\ src.payload = "&'static str"
                  /\ Len(src.display) = Len(fmt)
                  /\ \A i \in 1..Len(fmt) :
                        src.display[i] = IF fmt[i] = "{{" THEN "{"
                                         ELSE IF fmt[i] = "}}" THEN "}"
                                         ELSE fmt[i]
                  /\ (\A i \in 1..Len(fmt) : fmt[i] \notin {"{{", "}}"}) => src.display = fmt

\* helpful!("config missing")
C9_Witness ==
    /\ last.op = "helpful!"
    /\ last.inv.fmt = <<"config missing">>
    /\ result.error.source.payload = "&'static str"
    /\ result.error.source.display = <<"config missing">>

\* C10 - traced() and helpful() touch only the failure branch.  Ok(v) comes
\* back as it was and no capture is made; Err(e) of a native error e comes
\* back as Err of an Error whose source is e and whose snapshots are those of
\* the moment, the same value the implicit conversion builds, with one
\* capture; the operation is always possible and changes nothing else.
C10_ConversionExtension ==
    /\ [][ (last'.op \in {"traced", "helpful"}) =>
          /\ stack' = stack
          /\ result.tag = "Ok" =>
                /\ result' = result
                /\ captures' = captures
                /\ first' = first
          /\ (result.tag = "Err" /\ result.error.kind = "native") =>
                /\ result'.tag = "Err"
                /\ result'.error.kind = "helpful"
                /\ result'.error.source = result.error
                /\ result'.error.span_trace = Reverse(CurrentSpans)
                /\ result'.error.backtrace.status = BacktraceStatus
                /\ result'.error = QuestionErr(result.error, "helpful").error
                /\ captures' = captures + 1 ]_vars
    /\ []((pc = "run" /\ result.tag \in {"Ok", "Err"}) => (ENABLED Traced /\ ENABLED Helpful))

\* helpful() has just wrapped a native error inside a span.
C10_Witness ==
    /\ last.op = "helpful"
    /\ last.input = "native"
    /\ result.tag = "Err"
    /\ result.error.kind = "helpful"
    /\ result.error.source = JsonError
    /\ result.error.span_trace # <<>>
====
